---------------------------- MODULE Spec2Model ----------------------------
(***************************************************************************)
(* A model of patch-finder.py: the patch extractor (extract_patch), the    *)
(* message segmenter (MHonArcScraper.scrape_html_mail), the index scanner  *)
(* (MHonArcScraper.scrape_monthly_index) and the fetcher (UrlCache).       *)
(*                                                                         *)
(* Text is a sequence of characters, each character a one-character        *)
(* string (a character or a byte outside ASCII is a string that names it). *)
(* An optional value (Python's None or a value) is a sequence of length 0  *)
(* or 1.                                                                   *)
(***************************************************************************)
EXTENDS Naturals, Sequences, FiniteSets

VARIABLES
    \* extract_patch
    body,           \* the argument of extract_patch
    todo,           \* the lines of body.splitlines() not yet iterated over
    within_patch,   \* local within_patch
    patch,          \* local patch (optional text)
    epc,            \* "scan", "returned" or "raised"
    eret,           \* the value returned (optional text)
    pass,           \* 1: extraction of a mail body, 2: of the patch it gave,
                    \* 3: of another body with the same diff block
    first,          \* the value the first extraction returned
    body1,          \* the body of the first extraction
    \* MHonArcScraper.scrape_html_mail
    html_mail,      \* the argument of scrape_html_mail
    stodo,          \* the lines of html_mail.splitlines() not yet iterated over
    state,          \* local state: the name of the current section
    subdivisions,   \* local subdivisions: an OrderedDict of section texts
    subject,        \* local subject (optional text)
    spc,            \* "scan", "returned" or "raised"
    sbody,          \* the body returned (optional text)
    \* UrlCache
    files,          \* the files of the cache directory: <<path, content>>
    dir_exists,     \* whether the cache directory exists
    hits,           \* self.hits
    misses,         \* self.misses
    calls,          \* history: the number of calls of get
    retrievals,     \* history: the number of calls of requests.get
    fetched,        \* history: per url, the texts retrieved and stored
    last,           \* the last call of get: its url, how it went, its result
    \* MHonArcScraper.scrape_monthly_index
    index_url,      \* the argument url
    html_doc,       \* local html_doc (optional text)
    links,          \* the tags of soup.find_all('a') not yet iterated over
    mail_urls,      \* the urls yielded so far
    ipc             \* "start", "scan", "done" or "raised"

evars == <<body, todo, within_patch, patch, epc, eret, pass, first, body1>>

svars == <<html_mail, stodo, state, subdivisions, subject, spc, sbody>>

cvars == <<files, dir_exists, hits, misses, calls, retrievals, fetched, last>>

ivars == <<index_url, html_doc, links, mail_urls, ipc>>

vars == <<evars, svars, cvars, ivars>>

\* What the steps of one component leave alone (the index scanner steps
\* the cache too).
notExtract == <<svars, cvars, ivars>>
notScrape == <<evars, cvars, ivars>>
notCache == <<evars, svars, ivars>>
notIndex == <<evars, svars>>

-----------------------------------------------------------------------------
(* Optional values and text helpers *)

None == <<>>
Some(v) == <<v>>
Val(o) == o[1]

NL == <<"\n">>

\* A component that a specification does not run.
ExtractIdle ==
    /\ body = <<>>
    /\ todo = <<>>
    /\ within_patch = FALSE
    /\ patch = None
    /\ epc = "idle"
    /\ eret = None
    /\ pass = 0
    /\ first = None
    /\ body1 = <<>>

ScrapeIdle ==
    /\ html_mail = <<>>
    /\ stodo = <<>>
    /\ state = <<>>
    /\ subdivisions = <<>>
    /\ subject = None
    /\ spc = "idle"
    /\ sbody = None

CacheIdle ==
    /\ files = {}
    /\ dir_exists = FALSE
    /\ hits = 0
    /\ misses = 0
    /\ calls = 0
    /\ retrievals = 0
    /\ fetched = <<>>
    /\ last = <<>>

IndexIdle ==
    /\ index_url = <<>>
    /\ html_doc = None
    /\ links = <<>>
    /\ mail_urls = <<>>
    /\ ipc = "idle"

\* The concatenation of the texts of the sequence ps.
RECURSIVE Concat(_)
Concat(ps) == IF ps = <<>> THEN <<>> ELSE Head(ps) \o Concat(Tail(ps))

\* A comparison of the first character only.
startswith_first(s, prefix) ==
    s # <<>> /\ prefix # <<>> /\ s[1] = prefix[1]

\* str.startswith
startswith(s, prefix) ==
    /\ Len(s) >= Len(prefix)
    /\ SubSeq(s, 1, Len(prefix)) = prefix

\* str.endswith
endswith(s, suffix) ==
    /\ Len(s) >= Len(suffix)
    /\ SubSeq(s, Len(s) - Len(suffix) + 1, Len(s)) = suffix

\* The characters str.rstrip() removes (of the model's alphabet).
Whitespace == { " ", "\t", "\n", "\r" }

\* str.rstrip(): drop trailing whitespace.
RECURSIVE rstrip(_)
rstrip(s) ==
    IF s # <<>> /\ s[Len(s)] \in Whitespace
    THEN rstrip(SubSeq(s, 1, Len(s) - 1))
    ELSE s

\* The line ends str.splitlines() knows (of the model's alphabet).
LineEnds == { "\n", "\r" }

\* str.splitlines(): split at "\n", "\r" and "\r\n"; the line ends are
\* dropped, and text that ends with a line end has no empty last line.
\* SplitFrom(s, i): the lines of s from position i on.
RECURSIVE SplitFrom(_, _)
SplitFrom(s, i) ==
    IF i > Len(s) THEN <<>>
    ELSE LET ends == { k \in i..Len(s) : s[k] \in LineEnds } IN
         IF ends = {} THEN << SubSeq(s, i, Len(s)) >>
         ELSE LET k == CHOOSE e \in ends : \A f \in ends : e <= f
                  next == IF s[k] = "\r" /\ k < Len(s) /\ s[k + 1] = "\n"
                          THEN k + 2 ELSE k + 1
              IN  << SubSeq(s, i, k - 1) >> \o SplitFrom(s, next)

splitlines(s) == SplitFrom(s, 1)

-----------------------------------------------------------------------------
(* extract_patch *)

\* The literal '--- ' of line 150.
PatchStart == <<"-", "-", "-", " ">>

\* A set of characters that lets 'x' continue the patch.
DiffChars_wide == { "-", "+", "@", " ", "x" }

\* The characters of '-+@ ' (line 143).
DiffChars == { "-", "+", "@", " " }

\* The bodies the extraction is run on: texts made of these pieces.
MaxPieces == 5

BodyPieces ==
    { <<"-", "-", "-", " ", "a", "\n">>,
      <<"-", "-", "-", " ", "\n">>,
      <<"+", "b", "\t", "\r", "\n">>,
      <<"\n">>,
      <<"x", "\n">>,
      <<"-", "c">>,
      <<"@", "\r", " ">> }

\* Lines 135-137: the locals before the loop.
ExtractBegin(b, p) ==
    /\ body = b
    /\ todo = splitlines(b)
    /\ within_patch = FALSE
    /\ patch = None
    /\ epc = "scan"
    /\ eret = None
    /\ pass = p

\* The end of the patch without the trimming / without the newline.
EndOfPatch_untrimmed(p) == p
EndOfPatch_bare(p) == rstrip(p)

\* Line 145: the value returned at the end of the patch.
EndOfPatch(p) == rstrip(p) \o NL

\* The end of the body normalised like the end of the patch.
EndOfBody_trimmed(p) == rstrip(p) \o NL

\* Line 157: the value returned when the patch runs to the end of the body.
EndOfBody(p) == p

\* Lines 137-154: one iteration of the loop.
ExtractLine ==
    /\ epc = "scan"
    /\ todo # <<>>
    /\ LET line == Head(todo) IN
       IF within_patch THEN
           IF patch = None THEN
               \* patch += ... on None raises TypeError
               /\ epc' = "raised"
               /\ UNCHANGED <<todo, within_patch, patch, eret>>
           ELSE IF line = <<>> THEN
               /\ patch' = Some(Val(patch) \o NL)
               /\ todo' = Tail(todo)
               /\ UNCHANGED <<within_patch, epc, eret>>
           ELSE IF line[1] \notin DiffChars THEN
               /\ eret' = Some(EndOfPatch(Val(patch)))
               /\ epc' = "returned"
               /\ UNCHANGED <<todo, within_patch, patch>>
           ELSE
               /\ patch' = Some(Val(patch) \o line \o NL)
               /\ todo' = Tail(todo)
               /\ UNCHANGED <<within_patch, epc, eret>>
       ELSE
           IF startswith(line, PatchStart) THEN
               /\ within_patch' = TRUE
               /\ patch' = Some(line \o NL)
               /\ todo' = Tail(todo)
               /\ UNCHANGED <<epc, eret>>
           ELSE
               /\ todo' = Tail(todo)
               /\ UNCHANGED <<within_patch, patch, epc, eret>>
    /\ UNCHANGED <<body, pass, first, body1>>
    /\ UNCHANGED notExtract

\* Lines 155-157: the loop is over; a function that falls off its end
\* returns None.
ExtractEnd ==
    /\ epc = "scan"
    /\ todo = <<>>
    /\ eret' = IF within_patch THEN Some(EndOfBody(Val(patch))) ELSE None
    /\ epc' = "returned"
    /\ UNCHANGED <<body, todo, within_patch, patch, pass, first, body1>>
    /\ UNCHANGED notExtract

\* The extraction run again on the patch the first run returned.
ExtractAgain ==
    /\ epc = "returned"
    /\ pass = 1
    /\ eret # None
    /\ first' = eret
    /\ body' = Val(eret)
    /\ todo' = splitlines(Val(eret))
    /\ within_patch' = FALSE
    /\ patch' = None
    /\ epc' = "scan"
    /\ eret' = None
    /\ pass' = 2
    /\ UNCHANGED body1
    /\ UNCHANGED notExtract

InitExtract ==
    /\ \E n \in 0..MaxPieces :
           \E ps \in [1..n -> BodyPieces] : ExtractBegin(Concat(ps), 1)
    /\ first = None
    /\ body1 = body
    /\ ScrapeIdle
    /\ CacheIdle
    /\ IndexIdle

NextExtract == ExtractLine \/ ExtractEnd \/ ExtractAgain

SpecExtract == InitExtract /\ [][NextExtract]_vars

-----------------------------------------------------------------------------
(* collections.OrderedDict: a sequence of <<key, value>> pairs in the order
   in which the keys were first inserted *)

dict_has(d, k) == \E i \in 1..Len(d) : d[i][1] = k

\* d.get(k): the value, or None.
dict_get(d, k) ==
    IF dict_has(d, k)
    THEN Some(d[CHOOSE i \in 1..Len(d) : d[i][1] = k][2])
    ELSE None

\* An assignment that moves a key that is there to the end.
dict_set_moved(d, k, v) ==
    Append(SelectSeq(d, LAMBDA e : e[1] # k), <<k, v>>)

\* d[k] = v: a new key goes last, a key that is there keeps its place.
dict_set(d, k, v) ==
    IF dict_has(d, k)
    THEN [i \in 1..Len(d) |-> IF d[i][1] = k THEN <<k, v>> ELSE d[i]]
    ELSE Append(d, <<k, v>>)

-----------------------------------------------------------------------------
(* MHonArcScraper.scrape_html_mail *)

Letters ==
    { "A", "B", "C", "D", "E", "F", "G", "H", "I", "J", "K", "L", "M", "N",
      "O", "P", "Q", "R", "S", "T", "U", "V", "W", "X", "Y", "Z",
      "a", "b", "c", "d", "e", "f", "g", "h", "i", "j", "k", "l", "m", "n",
      "o", "p", "q", "r", "s", "t", "u", "v", "w", "x", "y", "z" }

\* The class [A-za-z-] of line 107: the range A-z holds the letters and the
\* six characters between 'Z' and 'a' (the sixth, the backquote, is in no
\* text of the model).
NameChars == Letters \cup { "[", "\\", "]", "^", "_" } \cup { "-" }

SubjectOpen == <<"<", "!", "-", "-", "X", "-", "S", "u", "b", "j", "e", "c", "t", ":", " ">>
SubjectClose == <<" ", "-", "-", ">">>
SectionOpen == <<"<", "!", "-", "-", "X", "-">>
SectionClose == <<"-", "-", ">">>

\* s[i..] starts with t.
HasAt(s, i, t) ==
    /\ i + Len(t) - 1 <= Len(s)
    /\ SubSeq(s, i, i + Len(t) - 1) = t

Max(S) == CHOOSE x \in S : \A y \in S : y <= x

\* re.match of line 102, '<!--X-Subject: ', any text, ' -->': the places where
\* ' -->' can follow the group; the match is at the start of the line and
\* need not reach its end.
SubjectEnds(line) ==
    IF startswith(line, SubjectOpen)
    THEN { e \in Len(SubjectOpen)..Len(line) : HasAt(line, e + 1, SubjectClose) }
    ELSE {}

\* m.group(1) of that match: the group is greedy, so it is the longest.
SubjectGroup(line) ==
    SubSeq(line, Len(SubjectOpen) + 1, Max(SubjectEnds(line)))

\* re.match of line 107, '<!--X-', one or more characters of the class,
\* '-->': the places where the name can end, '-->' following.
SectionEnds(line) ==
    IF startswith(line, SectionOpen)
    THEN { e \in (Len(SectionOpen) + 1)..Len(line) :
             /\ \A i \in (Len(SectionOpen) + 1)..e : line[i] \in NameChars
             /\ HasAt(line, e + 1, SectionClose) }
    ELSE {}

SectionGroup(line) ==
    SubSeq(line, Len(SectionOpen) + 1, Max(SectionEnds(line)))

Preamble == <<"p", "r", "e", "a", "m", "b", "l", "e">>
BodyOfMessage == <<"B", "o", "d", "y", "-", "o", "f", "-", "M", "e", "s", "s", "a", "g", "e">>
PREFIX == <<"<", "P", "R", "E", ">", "\n">>
SUFFIX == <<"\n", "<", "/", "P", "R", "E", ">", "\n", "\n">>

\* The documents the segmenter is run on: texts made of these pieces.
MaxDocPieces == 5

DocPieces ==
    { <<"<", "!", "-", "-", "X", "-", "S", "u", "b", "j", "e", "c", "t", ":", " ", "s", " ", "-", "-", ">", "\n">>,
      <<"<", "!", "-", "-", "X", "-", "B", "o", "d", "y", "-", "o", "f", "-", "M", "e", "s", "s", "a", "g", "e", "-", "-", ">", "\n">>,
      <<"<", "!", "-", "-", "X", "-", "H", "e", "a", "d", "-", "-", ">", "\n">>,
      <<"<", "P", "R", "E", ">", "\n">>,
      <<"<", "/", "P", "R", "E", ">", "\n">>,
      <<"\n">>,
      <<"x", "\r">> }

\* Line 112 with a line that has lost its newline.
AppendLine_bare(text, line) == text \o line

\* Line 112: text + line + '\n'.
AppendLine(text, line) == text \o line \o NL

\* A suffix one newline short.
strip_suffix_short(b) ==
    IF endswith(b, <<"\n", "<", "/", "P", "R", "E", ">", "\n">>)
    THEN SubSeq(b, 1, Len(b) - Len(<<"\n", "<", "/", "P", "R", "E", ">", "\n">>))
    ELSE b

\* Lines 120-122.
strip_prefix(b) ==
    IF startswith(b, PREFIX) THEN SubSeq(b, Len(PREFIX) + 1, Len(b)) ELSE b

\* Lines 123-125.
strip_suffix(b) ==
    IF endswith(b, SUFFIX) THEN SubSeq(b, 1, Len(b) - Len(SUFFIX)) ELSE b

\* Lines 96-100: the locals before the loop.
ScrapeBegin(doc) ==
    /\ html_mail = doc
    /\ stodo = splitlines(doc)
    /\ state = Preamble
    /\ subdivisions = << <<Preamble, <<>> >> >>
    /\ subject = None
    /\ spc = "scan"
    /\ sbody = None

\* Lines 100-112: one iteration of the loop.
ScrapeLine ==
    /\ spc = "scan"
    /\ stodo # <<>>
    /\ LET line == Head(stodo) IN
       IF SubjectEnds(line) # {} THEN
           /\ subject' = Some(SubjectGroup(line))
           /\ UNCHANGED <<state, subdivisions, spc>>
       ELSE IF SectionEnds(line) # {} THEN
           /\ state' = SectionGroup(line)
           /\ subdivisions' = dict_set(subdivisions, SectionGroup(line), <<>>)
           /\ UNCHANGED <<subject, spc>>
       ELSE IF ~dict_has(subdivisions, state) THEN
           \* subdivisions[state] on a missing key raises KeyError
           /\ spc' = "raised"
           /\ UNCHANGED <<state, subdivisions, subject>>
       ELSE
           /\ subdivisions' =
                  dict_set(subdivisions, state,
                           AppendLine(Val(dict_get(subdivisions, state)), line))
           /\ UNCHANGED <<state, subject, spc>>
    /\ stodo' = IF spc' = "raised" THEN stodo ELSE Tail(stodo)
    /\ UNCHANGED <<html_mail, sbody>>
    /\ UNCHANGED notScrape

\* Lines 118-127: the body is looked up and unwrapped; startswith on the
\* None that get() gives for a missing key raises AttributeError.
ScrapeEnd ==
    /\ spc = "scan"
    /\ stodo = <<>>
    /\ LET b == dict_get(subdivisions, BodyOfMessage) IN
       IF b = None THEN
           /\ spc' = "raised"
           /\ UNCHANGED sbody
       ELSE
           /\ sbody' = Some(strip_suffix(strip_prefix(Val(b))))
           /\ spc' = "returned"
    /\ UNCHANGED <<html_mail, stodo, state, subdivisions, subject>>
    /\ UNCHANGED notScrape

InitScrape ==
    /\ \E n \in 0..MaxDocPieces :
           \E ps \in [1..n -> DocPieces] : ScrapeBegin(Concat(ps))
    /\ ExtractIdle
    /\ CacheIdle
    /\ IndexIdle

NextScrape == ScrapeLine \/ ScrapeEnd

SpecScrape == InitScrape /\ [][NextScrape]_vars

\* Documents with lines that open like a marker and are not one from end
\* to end, for the recognition of markers: texts made of these pieces.
MaxMarkerPieces == 4

MarkerPieces ==
    { <<"<", "!", "-", "-", "X", "-", "S", "u", "b", "j", "e", "c", "t", ":", " ", "s", " ", "-", "-", ">", "\n">>,
      <<"<", "!", "-", "-", "X", "-", "S", "u", "b", "j", "e", "c", "t", ":", " ", "t", " ", "-", "-", ">", " ", "-", "-", ">", "u", "\n">>,
      <<"<", "!", "-", "-", "X", "-", "H", "e", "a", "d", "-", "-", ">", "\n">>,
      <<"<", "!", "-", "-", "X", "-", "H", "e", "a", "d", "-", "-", ">", "x", "\n">>,
      <<"<", "!", "-", "-", "X", "-", "a", "_", "b", "-", "-", ">", "\n">>,
      <<"<", "!", "-", "-", "X", "-", "9", "-", "-", ">", "\n">>,
      <<"<", "!", "-", "-", "X", "-", "B", "o", "d", "y", "-", "o", "f", "-", "M", "e", "s", "s", "a", "g", "e", "-", "-", ">", "\n">>,
      <<"x", "\r">> }

InitMarkers ==
    /\ \E n \in 0..MaxMarkerPieces :
           \E ps \in [1..n -> MarkerPieces] : ScrapeBegin(Concat(ps))
    /\ ExtractIdle
    /\ CacheIdle
    /\ IndexIdle

SpecMarkers == InitMarkers /\ [][NextScrape]_vars

-----------------------------------------------------------------------------
(* UrlCache *)

\* Line 40: self.cache_dir.
cache_dir == <<".", "u", "r", "l", "-", "c", "a", "c", "h", "e">>

\* The characters urllib.quote leaves as they are (of the model's
\* alphabet): letters, digits and '_', '.', '-'; safe='' adds none.
Digits == { "0", "1", "2", "3", "4", "5", "6", "7", "8", "9" }
AlwaysSafe == Letters \cup Digits \cup { "_", ".", "-" }

\* The escape of a character that is not safe, '%' and two hex digits, for
\* the characters '/', ':', '%' and '?' of the model's alphabet.
QuoteChar(c) ==
    IF c \in AlwaysSafe THEN <<c>>
    ELSE IF c = "/" THEN <<"%", "2", "F">>
    ELSE IF c = ":" THEN <<"%", "3", "A">>
    ELSE IF c = "%" THEN <<"%", "2", "5">>
    ELSE <<"%", "3", "F">>

\* urllib.quote(url, safe=''), line 45.
RECURSIVE quote(_)
quote(url) ==
    IF url = <<>> THEN <<>> ELSE QuoteChar(Head(url)) \o quote(Tail(url))

\* os.path.join(self.cache_dir, ...), line 45.
PathOf(url) == cache_dir \o <<"/">> \o quote(url)

\* unicode.encode('utf-8'), line 59: a character of ASCII is one byte, the
\* character U+00E9 is the two bytes C3 A9.
EncodeChar(c) == IF c = "U+00E9" THEN <<"0xC3", "0xA9">> ELSE <<c>>

RECURSIVE encode_utf8(_)
encode_utf8(text) ==
    IF text = <<>> THEN <<>>
    ELSE EncodeChar(Head(text)) \o encode_utf8(Tail(text))

\* A test that never finds the file.
exists_never(path) == FALSE

\* os.path.exists(path), line 46: files is the set of <<path, content>>
\* of the files in the cache directory.
exists(path) == \E f \in files : f[1] = path

\* open(path).read(), lines 50-51.
read(path) == (CHOOSE f \in files : f[1] = path)[2]

\* A get that forgets to store what it retrieved.
StoreFile_lost(path, text) == files

\* Lines 58-59: the file written on a miss.
StoreFile(path, text) == files \cup { <<path, encode_utf8(text)>> }

\* UrlCache.get(url), lines 44-60.  net is what requests.get does when it is
\* called: None when it raises, the text of the response otherwise.  last is
\* the outcome of the call; calls, retrievals and fetched are its history.
UrlCache_get(url, net) ==
    /\ calls' = calls + 1
    /\ IF exists(PathOf(url)) THEN
           /\ hits' = hits + 1
           /\ last' = [url |-> url, how |-> "hit", ret |-> Some(read(PathOf(url)))]
           /\ UNCHANGED <<misses, files, dir_exists, retrievals, fetched>>
       ELSE
           /\ misses' = misses + 1
           /\ retrievals' = retrievals + 1
           /\ UNCHANGED hits
           /\ IF net = None THEN
                  /\ last' = [url |-> url, how |-> "raised", ret |-> None]
                  /\ UNCHANGED <<files, dir_exists, fetched>>
              ELSE
                  /\ dir_exists' = TRUE
                  /\ files' = StoreFile(PathOf(url), Val(net))
                  /\ fetched' = [fetched EXCEPT ![url] = Append(@, Val(net))]
                  /\ last' = [url |-> url, how |-> "miss", ret |-> net]

\* What requests.get(url) can do where get calls it, which is on a miss
\* only: raise (None), or answer with one of the texts.
Network(url, texts) ==
    IF exists(PathOf(url)) THEN {None} ELSE {None} \cup { Some(t) : t \in texts }

\* The urls asked for, the texts the network serves, and the number of calls.
Urls == { <<"a", "/", "b">>, <<"a", "%", "2", "F", "b">>, <<"a", ":", "b">> }
Texts == { <<"a", "b">>, <<"a", "U+00E9">> }
MaxGets == 4

\* One call of get by the program.
Get ==
    /\ calls < MaxGets
    /\ \E url \in Urls : \E net \in Network(url, Texts) : UrlCache_get(url, net)
    /\ UNCHANGED notCache

\* Lines 39-42, and the cache directory as earlier runs left it: missing, or
\* holding files that earlier runs stored.
CacheBegin(urls, texts) ==
    /\ hits = 0
    /\ misses = 0
    /\ calls = 0
    /\ retrievals = 0
    /\ fetched = [u \in urls |-> <<>>]
    /\ last = [url |-> <<>>, how |-> "none", ret |-> None]
    /\ dir_exists \in BOOLEAN
    /\ \E kept \in SUBSET urls :
           \E old \in [kept -> texts] :
               files = { <<PathOf(u), encode_utf8(old[u])>> : u \in kept }
    /\ (files # {} => dir_exists)

InitCache ==
    /\ CacheBegin(Urls, Texts)
    /\ ExtractIdle
    /\ ScrapeIdle
    /\ IndexIdle

NextCache == Get

SpecCache == InitCache /\ [][NextCache]_vars

-----------------------------------------------------------------------------
(* MHonArcScraper.scrape_monthly_index *)

\* The least element of a set of numbers.
Min(S) == CHOOSE x \in S : \A y \in S : x <= y

\* The places of character c in s from position i on.
Places(s, i, c) == { k \in i..Len(s) : s[k] = c }

\* link.get('href'), line 83, of the tag whose text between '<' and '>' is
\* inner: the value of the attribute href, or None.
HrefOf(inner) ==
    LET at == { k \in 1..Len(inner) : HasAt(inner, k, <<" ", "h", "r", "e", "f", "=", "\"">>) } IN
    IF at = {} THEN None
    ELSE LET from == Min(at) + Len(<<" ", "h", "r", "e", "f", "=", "\"">>)
             quotes == Places(inner, from, "\"")
         IN  IF quotes = {} THEN None
             ELSE Some(SubSeq(inner, from, Min(quotes) - 1))

\* The name of that tag.
TagName(inner) ==
    LET spaces == Places(inner, 1, " ") IN
    IF spaces = {} THEN inner ELSE SubSeq(inner, 1, Min(spaces) - 1)

\* BeautifulSoup(html_doc, 'html.parser').find_all('a'), lines 79-82, as
\* the href (or None) of every tag 'a' of the document from position i on,
\* in document order.
RECURSIVE AnchorsFrom(_, _)
AnchorsFrom(s, i) ==
    LET opens == Places(s, i, "<") IN
    IF opens = {} THEN <<>>
    ELSE LET closes == Places(s, Min(opens) + 1, ">") IN
         IF closes = {} THEN <<>>
         ELSE LET inner == SubSeq(s, Min(opens) + 1, Min(closes) - 1) IN
              (IF TagName(inner) = <<"a">> THEN << HrefOf(inner) >> ELSE <<>>)
                  \o AnchorsFrom(s, Min(closes) + 1)

find_all_a(doc) == AnchorsFrom(doc, 1)

\* re.match('msg[0-9]+.html', href), line 84: the places where the digits
\* can end, one character other than a newline and 'html' following; the
\* match is at the start of href and need not reach its end.
MsgEnds(href) ==
    IF startswith(href, <<"m", "s", "g">>)
    THEN { e \in 4..Len(href) :
             /\ \A i \in 4..e : href[i] \in Digits
             /\ e + 1 <= Len(href)
             /\ href[e + 1] # "\n"
             /\ HasAt(href, e + 2, <<"h", "t", "m", "l">>) }
    ELSE {}

\* The index documents: texts made of these pieces.
MaxIndexPieces == 3

IndexPieces ==
    { <<"<", "a", " ", "h", "r", "e", "f", "=", "\"", "m", "s", "g", "1", ".", "h", "t", "m", "l", "\"", ">">>,
      <<"<", "a", " ", "h", "r", "e", "f", "=", "\"", "m", "s", "g", "0", "2", ".", "h", "t", "m", "l", "\"", ">">>,
      <<"<", "a", " ", "h", "r", "e", "f", "=", "\"", "m", "s", "g", "1", "x", "h", "t", "m", "l", "\"", ">">>,
      <<"<", "a", " ", "h", "r", "e", "f", "=", "\"", "m", "s", "g", "1", ".", "h", "t", "m", "l", "~", "\"", ">">>,
      <<"<", "a", " ", "h", "r", "e", "f", "=", "\"", "m", "s", "g", ".", "h", "t", "m", "l", "\"", ">">>,
      <<"<", "a", " ", "h", "r", "e", "f", "=", "\"", "i", "n", "d", "e", "x", ".", "h", "t", "m", "l", "\"", ">">>,
      <<"<", "a", " ", "n", "a", "m", "e", "=", "\"", "t", "\"", ">">>,
      <<"<", "l", "i", ">", "x", "<", "/", "a", ">", "\n">> }

IndexUrl == <<"a", ":", "b", "/">>

\* The documents of at most n pieces.
RECURSIVE IndexDocs(_)
IndexDocs(n) ==
    IF n = 0 THEN { <<>> }
    ELSE LET D == IndexDocs(n - 1) IN D \cup { d \o p : d \in D, p \in IndexPieces }

IndexTexts == IndexDocs(MaxIndexPieces)

\* Lines 78-82: the document is fetched through the cache and parsed.  What
\* a hit gives is the bytes of the file, which are the text when the text
\* is ASCII, as the index documents are.
IndexBegin ==
    /\ ipc = "start"
    /\ \E net \in Network(index_url, IndexTexts) : UrlCache_get(index_url, net)
    /\ IF last'.ret = None THEN
           /\ ipc' = "raised"
           /\ UNCHANGED <<html_doc, links>>
       ELSE
           /\ html_doc' = last'.ret
           /\ links' = find_all_a(Val(last'.ret))
           /\ ipc' = "scan"
    /\ UNCHANGED <<index_url, mail_urls>>
    /\ UNCHANGED notIndex

\* Lines 82-87: one iteration of the loop; re.match on the None that
\* link.get gives for a tag without href raises TypeError.
IndexLink ==
    /\ ipc = "scan"
    /\ links # <<>>
    /\ LET href == Head(links) IN
       IF href = None THEN
           /\ ipc' = "raised"
           /\ UNCHANGED <<links, mail_urls>>
       ELSE IF MsgEnds(Val(href)) # {} THEN
           /\ mail_urls' = Append(mail_urls, index_url \o Val(href))
           /\ links' = Tail(links)
           /\ UNCHANGED ipc
       ELSE
           /\ links' = Tail(links)
           /\ UNCHANGED <<ipc, mail_urls>>
    /\ UNCHANGED <<index_url, html_doc>>
    /\ UNCHANGED cvars
    /\ UNCHANGED notIndex

\* The loop is over: the generator is exhausted.
IndexEnd ==
    /\ ipc = "scan"
    /\ links = <<>>
    /\ ipc' = "done"
    /\ UNCHANGED <<index_url, html_doc, links, mail_urls>>
    /\ UNCHANGED cvars
    /\ UNCHANGED notIndex

InitIndex ==
    /\ index_url = IndexUrl
    /\ html_doc = None
    /\ links = <<>>
    /\ mail_urls = <<>>
    /\ ipc = "start"
    /\ CacheBegin({IndexUrl}, IndexTexts)
    /\ ExtractIdle
    /\ ScrapeIdle

NextIndex == IndexBegin \/ IndexLink \/ IndexEnd

SpecIndex == InitIndex /\ [][NextIndex]_vars

-----------------------------------------------------------------------------
(* Properties of extract_patch *)

\* The lines of the body, as the loop sees them.
BodyLines == splitlines(body)

\* A line that begins with '--- '.
BeginsPatch(l) ==
    Len(l) >= 4 /\ l[1] = "-" /\ l[2] = "-" /\ l[3] = "-" /\ l[4] = " "

\* A non-blank line whose first character is none of '-', '+', '@', ' '.
IsProse(l) == l # <<>> /\ l[1] # "-" /\ l[1] # "+" /\ l[1] # "@" /\ l[1] # " "

HasStart(ls) == \E i \in 1..Len(ls) : BeginsPatch(ls[i])

\* The index of the first line that begins with '--- '.
FirstStart(ls) ==
    CHOOSE i \in 1..Len(ls) :
        BeginsPatch(ls[i]) /\ \A j \in 1..(i - 1) : ~BeginsPatch(ls[j])

HasEnd(ls) ==
    HasStart(ls) /\ \E j \in (FirstStart(ls) + 1)..Len(ls) : IsProse(ls[j])

\* The index of the first terminating line after the first '--- ' line.
FirstEnd(ls) ==
    CHOOSE j \in (FirstStart(ls) + 1)..Len(ls) :
        IsProse(ls[j]) /\ \A k \in (FirstStart(ls) + 1)..(j - 1) : ~IsProse(ls[k])

\* The lines ls[a..b] joined with newlines.
RECURSIVE JoinNL(_, _, _)
JoinNL(ls, a, b) ==
    IF a > b THEN <<>>
    ELSE IF a = b THEN ls[a]
    ELSE ls[a] \o <<"\n">> \o JoinNL(ls, a + 1, b)

\* The lines ls[a..b], each followed by a newline.
RECURSIVE EachNL(_, _, _)
EachNL(ls, a, b) ==
    IF a > b THEN <<>> ELSE ls[a] \o <<"\n">> \o EachNL(ls, a + 1, b)

IsSpace(c) == c = " " \/ c = "\t" \/ c = "\n" \/ c = "\r"

\* t is s without its trailing whitespace.
IsTrimOf(t, s) ==
    /\ Len(t) <= Len(s)
    /\ t = SubSeq(s, 1, Len(t))
    /\ \A k \in (Len(t) + 1)..Len(s) : IsSpace(s[k])
    /\ (t # <<>> => ~IsSpace(t[Len(t)]))

\* C1: when a non-blank line that starts with none of '-', '+', '@', ' '
\* follows the first '--- ' line, extract_patch returns the lines from the
\* first '--- ' line up to but excluding the first such line, joined with
\* newlines, trimmed of trailing whitespace, plus exactly one newline.
C1_MidBodyTermination ==
    (epc # "scan" /\ HasEnd(BodyLines)) =>
        /\ epc = "returned"
        /\ eret # None
        /\ LET joined == JoinNL(BodyLines, FirstStart(BodyLines),
                                FirstEnd(BodyLines) - 1)
               r == Val(eret)
           IN  /\ r # <<>>
               /\ r[Len(r)] = "\n"
               /\ IsTrimOf(SubSeq(r, 1, Len(r) - 1), joined)

\* A patch after a line of prose, with a blank line that the trimming
\* removes, ended by a line of prose that more text follows.
C1_Witness ==
    /\ epc = "returned"
    /\ pass = 1
    /\ HasEnd(BodyLines)
    /\ FirstStart(BodyLines) > 1
    /\ FirstEnd(BodyLines) < Len(BodyLines)
    /\ \E i \in (FirstStart(BodyLines) + 1)..(FirstEnd(BodyLines) - 1) :
           BodyLines[i] = <<>>
    /\ Val(eret) # Val(patch)

\* C2: extract_patch returns None, and does not raise, for every body none
\* of whose lines starts with '--- '; the scan never leaves state BEFORE.
C2_NoStartGivesNone ==
    ~HasStart(BodyLines) =>
        /\ ~within_patch
        /\ patch = None
        /\ epc \in {"scan", "returned"}
        /\ eret = None

\* A body with lines of diff syntax but none that starts with '--- '.
C2_Witness ==
    /\ epc = "returned"
    /\ pass = 1
    /\ ~HasStart(BodyLines)
    /\ \E i \in 1..Len(BodyLines) :
           BodyLines[i] # <<>> /\ BodyLines[i][1] = "-"
    /\ eret = None

\* C3 as stated: the patch p that extract_patch returns starts with '--- '
\* and extract_patch(p) returns exactly p.
C3_Original ==
    (pass = 2 /\ epc # "scan") =>
        /\ BeginsPatch(body)
        /\ epc = "returned"
        /\ eret = first

DashesOnly == <<"-", "-", "-", "\n">>

\* C3 as amended: a patch p that extract_patch returns and that starts with
\* '--- ' is returned unchanged by extract_patch(p); the only patch that
\* does not start with '--- ' is '---' plus a newline, for which
\* extract_patch returns None.
C3_Idempotent ==
    (pass = 2 /\ epc # "scan") =>
        /\ epc = "returned"
        /\ first = Some(body)
        /\ IF BeginsPatch(body) THEN eret = first
           ELSE body = DashesOnly /\ eret = None

\* The second extraction of a patch that the first one trimmed.
C3_Witness ==
    /\ pass = 2
    /\ epc = "returned"
    /\ BeginsPatch(body)
    /\ eret = first
    /\ Len(splitlines(body)) >= 3
    /\ \E i \in 1..Len(body) : body[i] = "\t"

\* Every line of text t is blank or starts with one of '-', '+', '@', ' '.
DiffLinesOnly(t) ==
    \A i \in 1..Len(splitlines(t)) : ~IsProse(splitlines(t)[i])

\* C4 as stated: every result that is not None begins with a line that
\* starts with '--- ', and every line of it is blank or starts with one of
\* '-', '+', '@', ' '.
C4_Original ==
    (epc = "returned" /\ eret # None) =>
        /\ BeginsPatch(Val(eret))
        /\ DiffLinesOnly(Val(eret))

\* C4 as amended: every result that is not None begins with a line that
\* starts with '--- ', or is '---' plus a newline (the '--- ' line trimmed),
\* and every line of it is blank or starts with one of '-', '+', '@', ' '.
C4_PatchFormat ==
    (epc = "returned" /\ eret # None) =>
        /\ BeginsPatch(Val(eret)) \/ Val(eret) = DashesOnly
        /\ DiffLinesOnly(Val(eret))

\* A patch of several lines cut out of a body with prose before and after.
C4_Witness ==
    /\ epc = "returned"
    /\ pass = 1
    /\ eret # None
    /\ HasEnd(BodyLines)
    /\ FirstStart(BodyLines) > 1
    /\ Len(splitlines(Val(eret))) >= 3

\* C5: when every line after the first '--- ' line is blank or starts with
\* one of '-', '+', '@', ' ', the result is the accumulated text as it is:
\* every line from the first '--- ' line on, each followed by a newline,
\* with no trimming.
C5_EndOfInputVerbatim ==
    (epc # "scan" /\ HasStart(BodyLines) /\ ~HasEnd(BodyLines)) =>
        /\ epc = "returned"
        /\ eret = Some(EachNL(BodyLines, FirstStart(BodyLines), Len(BodyLines)))
        /\ eret = patch

\* A body that ends inside the diff with a blank line last.
C5_Witness ==
    /\ epc = "returned"
    /\ pass = 1
    /\ HasStart(BodyLines)
    /\ ~HasEnd(BodyLines)
    /\ Len(BodyLines) > FirstStart(BodyLines)
    /\ BodyLines[Len(BodyLines)] = <<>>
    /\ endswith(Val(eret), <<"\n", "\n">>)

\* The lines of the body the loop has iterated over.
Consumed == SubSeq(BodyLines, 1, Len(BodyLines) - Len(todo))

\* C15: the scan is BEFORE at the start and WITHIN from the first line that
\* begins with '--- ' on: it is WITHIN exactly when such a line has been
\* iterated over, and a call that is WITHIN stays WITHIN.  In every state
\* the scan is WITHIN if and only if the accumulator is not None, and then
\* the accumulator is a text that begins with the first '--- ' line of the
\* body and a newline; no append ever fails.
C15_PatchScanStates ==
    /\ [](epc # "idle" =>
            LET ls == BodyLines
                seen == { i \in 1..(Len(ls) - Len(todo)) : BeginsPatch(ls[i]) }
            IN  /\ epc # "raised"
                /\ within_patch \in BOOLEAN
                /\ within_patch = (seen # {})
                /\ within_patch = (patch # None)
                /\ (within_patch =>
                       \E i \in seen :
                           /\ \A j \in seen : i <= j
                           /\ Len(Val(patch)) > Len(ls[i])
                           /\ \A k \in 1..Len(ls[i]) : Val(patch)[k] = ls[i][k]
                           /\ Val(patch)[Len(ls[i]) + 1] = "\n"))
    /\ [][(within_patch /\ pass' = pass) => within_patch']_vars

\* A scan that is WITHIN with lines still to come, lines of prose having
\* been discarded before the '--- ' line and lines added after it.
C15_Witness ==
    /\ epc = "scan"
    /\ pass = 1
    /\ within_patch
    /\ todo # <<>>
    /\ FirstStart(BodyLines) > 1
    /\ Len(Consumed) > FirstStart(BodyLines)
    /\ Len(Val(patch)) > Len(BodyLines[FirstStart(BodyLines)]) + 1

\* The first diff block of the lines ls, which hold a '--- ' line: the lines
\* from the first '--- ' line up to and including the first terminating
\* line, or up to the last line when no line terminates the block.
Block(ls) ==
    SubSeq(ls, FirstStart(ls), IF HasEnd(ls) THEN FirstEnd(ls) ELSE Len(ls))

\* Lines put before a block, none of which begins with '--- ', and lines
\* put after a terminated block, which hold a later block.
PadBefore == <<"x", "\n", "-", "c", "\r", "\n">>
PadAfter == <<"-", "-", "-", " ", "z", "\n", "+", "y", "\n">>

\* A body with the same first diff block as the lines ls, other lines
\* before it and, where a line terminates the block, other lines after it.
OtherBody(ls) ==
    PadBefore \o EachNL(Block(ls), 1, Len(Block(ls)))
              \o (IF HasEnd(ls) THEN PadAfter ELSE <<>>)

\* extract_patch called on another body with the same first diff block as
\* the body of the first call, which returned a patch.
ExtractOther ==
    /\ epc = "returned"
    /\ pass = 1
    /\ eret # None
    /\ first' = eret
    /\ body' = OtherBody(splitlines(body))
    /\ todo' = splitlines(OtherBody(splitlines(body)))
    /\ within_patch' = FALSE
    /\ patch' = None
    /\ epc' = "scan"
    /\ eret' = None
    /\ pass' = 3
    /\ UNCHANGED body1
    /\ UNCHANGED notExtract

NextExtractPair == ExtractLine \/ ExtractEnd \/ ExtractOther

SpecExtractPair == InitExtract /\ [][NextExtractPair]_vars

\* The lines a and b both hold a '--- ' line and have the same first block.
SameBlock(a, b) == HasStart(a) /\ HasStart(b) /\ Block(a) = Block(b)

\* C16: extract_patch returns the same result for two bodies that have the
\* same lines from their first '--- ' line up to and including the first
\* terminating line, whatever lines come before and after.  The second body
\* is the first block of the first between fixed other lines, a later
\* '--- ' block among them; all bodies with one block share that second
\* body, so their results are equal to its result and to one another.
C16_OnlyFirstBlockCounts ==
    (pass = 3 /\ epc # "scan") =>
        /\ SameBlock(splitlines(body1), BodyLines)
        /\ epc = "returned"
        /\ eret = first

\* Two bodies with the same terminated block, the first with its own lines
\* before and after it, the second with a later '--- ' block; both calls
\* return the same patch.
C16_Witness ==
    /\ pass = 3
    /\ epc = "returned"
    /\ eret = first
    /\ eret # None
    /\ body # body1
    /\ HasEnd(splitlines(body1))
    /\ FirstStart(splitlines(body1)) > 1
    /\ FirstEnd(splitlines(body1)) < Len(splitlines(body1))
    /\ FirstStart(BodyLines) # FirstStart(splitlines(body1))
    /\ \E i \in (FirstEnd(BodyLines) + 1)..Len(BodyLines) : BeginsPatch(BodyLines[i])

-----------------------------------------------------------------------------
(* Properties of scrape_html_mail *)

\* The lines of the document, as the loop sees them.
MailLines == splitlines(html_mail)

\* s begins with t / s ends with t, written out.
Begins(s, t) ==
    Len(s) >= Len(t) /\ \A i \in 1..Len(t) : s[i] = t[i]
Ends(s, t) ==
    Len(s) >= Len(t) /\ \A i \in 1..Len(t) : s[Len(s) - Len(t) + i] = t[i]

\* The text s without its first m and its last n characters.
Inner(s, m, n) == [i \in 1..(Len(s) - (m + n)) |-> s[m + i]]

\* No section of the name 'Body-of-Message' was met in the scan.
NoBodySection ==
    \A i \in 1..Len(subdivisions) : subdivisions[i][1] # <<"B", "o", "d", "y", "-", "o", "f", "-", "M", "e", "s", "s", "a", "g", "e">>

\* C6: scrape_html_mail never raises, whatever the document; when the scan
\* met no 'Body-of-Message' section it returns with the body None.
C6_NoBodyReturnsAbsent ==
    /\ spc # "raised"
    /\ (spc \notin {"scan", "idle"} /\ NoBodySection) =>
           spc = "returned" /\ sbody = None

\* A line that opens like a marker.
MarkerLike(l) == Begins(l, <<"<", "!", "-", "-", "X", "-">>)

NoMarkerLines == \A i \in 1..Len(MailLines) : ~MarkerLike(MailLines[i])

RawBody ==
    subdivisions[CHOOSE i \in 1..Len(subdivisions) :
                     subdivisions[i][1] = <<"B", "o", "d", "y", "-", "o", "f", "-", "M", "e", "s", "s", "a", "g", "e">>][2]

\* C8 as stated: a body text that starts with '<PRE>' and a newline loses
\* that prefix, one that ends with newline, '</PRE>', newline, newline loses
\* that suffix, each whatever the other does, and nothing else changes.
C8_Original ==
    spc = "returned" =>
        LET m == IF Begins(RawBody, <<"<", "P", "R", "E", ">", "\n">>) THEN 6 ELSE 0
            n == IF Ends(RawBody, <<"\n", "<", "/", "P", "R", "E", ">", "\n", "\n">>) THEN 9 ELSE 0
        IN  /\ m + n <= Len(RawBody)
            /\ sbody = Some(Inner(RawBody, m, n))

\* The body text in which the prefix and the suffix share a newline.
EmptyWrapper == <<"<", "P", "R", "E", ">", "\n", "<", "/", "P", "R", "E", ">", "\n", "\n">>

\* C8 as amended: the prefix is removed if the body text starts with it, and
\* then the suffix is removed if what is left ends with it; the two are
\* independent of each other except for the body text '<PRE>', newline,
\* '</PRE>', newline, newline, where the prefix takes the newline the
\* suffix needs and '</PRE>', newline, newline is returned.
C8_WrapperStripping ==
    spc = "returned" =>
        LET m == IF Begins(RawBody, <<"<", "P", "R", "E", ">", "\n">>) THEN 6 ELSE 0
            n == IF Ends(RawBody, <<"\n", "<", "/", "P", "R", "E", ">", "\n", "\n">>) THEN 9 ELSE 0
        IN  IF RawBody = EmptyWrapper
            THEN sbody = Some(<<"<", "/", "P", "R", "E", ">", "\n", "\n">>)
            ELSE /\ m + n <= Len(RawBody)
                 /\ sbody = Some(Inner(RawBody, m, n))

\* A wrapped body with text inside, returned without the wrapper.
C8_Witness ==
    /\ spc = "returned"
    /\ Begins(RawBody, <<"<", "P", "R", "E", ">", "\n">>)
    /\ Ends(RawBody, <<"\n", "<", "/", "P", "R", "E", ">", "\n", "\n">>)
    /\ Len(RawBody) > 15
    /\ sbody = Some(Inner(RawBody, 6, 9))
    /\ sbody # Some(<<>>)

\* A body with the prefix and without the exact suffix: only one newline
\* follows '</PRE>'.
C8_WitnessNoSuffix ==
    /\ spc = "returned"
    /\ Begins(RawBody, <<"<", "P", "R", "E", ">", "\n">>)
    /\ Ends(RawBody, <<"\n", "<", "/", "P", "R", "E", ">", "\n">>)
    /\ sbody = Some(Inner(RawBody, 6, 0))

\* The whole line is '<!--X-', a name of one or more letters and hyphens,
\* and '-->'.
WholeSection(l) ==
    /\ Len(l) >= 10
    /\ Begins(l, <<"<", "!", "-", "-", "X", "-">>)
    /\ Ends(l, <<"-", "-", ">">>)
    /\ \A i \in 7..(Len(l) - 3) : l[i] \in Letters \/ l[i] = "-"

\* The whole line is '<!--X-Subject: ', a value, and ' -->'.
WholeSubject(l) ==
    /\ Len(l) >= 19
    /\ Begins(l, <<"<", "!", "-", "-", "X", "-", "S", "u", "b", "j", "e", "c", "t", ":", " ">>)
    /\ Ends(l, <<" ", "-", "-", ">">>)

\* The lines of ls seen while the section n is current, each followed by a
\* newline, cur being the section that is current at the head of ls.
RECURSIVE SeenWhile(_, _, _)
SeenWhile(ls, cur, n) ==
    IF ls = <<>> THEN <<>>
    ELSE IF WholeSubject(Head(ls)) THEN SeenWhile(Tail(ls), cur, n)
    ELSE IF WholeSection(Head(ls))
         THEN SeenWhile(Tail(ls), Inner(Head(ls), 6, 3), n)
    ELSE (IF cur = n THEN Head(ls) \o <<"\n">> ELSE <<>>)
             \o SeenWhile(Tail(ls), cur, n)

\* C11: a section marker that names a section met before keeps the text
\* that section has accumulated, so that when the scan is over every
\* section name maps to all the lines seen while that name was current,
\* each followed by a newline.
C11_RepeatedSectionKeepsText ==
    (spc # "idle" /\ stodo = <<>>) =>
        \A i \in 1..Len(subdivisions) :
            subdivisions[i][2] =
                SeenWhile(MailLines, <<"p", "r", "e", "a", "m", "b", "l", "e">>,
                          subdivisions[i][1])

\* The text of section n in the section map d is t.
TextIs(d, n, t) == \E i \in 1..Len(d) : d[i][1] = n /\ d[i][2] = t

\* C12: a line switches the current section if and only if the whole line
\* is '<!--X-', a name of letters and hyphens, '-->', the name becoming the
\* current section; it sets the subject only if the whole line is
\* '<!--X-Subject: ', a value, ' -->'; every other line, one that goes on
\* after the marker or whose name holds another character included, leaves
\* the current section and the subject as they are and is appended, with a
\* newline, to the text of the current section.
C12_WholeLineMarkers ==
    [][(spc = "scan" /\ stodo # <<>>) =>
          IF WholeSubject(Head(stodo))
          THEN subject' = Some(Inner(Head(stodo), 15, 4)) /\ state' = state
          ELSE IF WholeSection(Head(stodo))
          THEN state' = Inner(Head(stodo), 6, 3) /\ subject' = subject
          ELSE /\ spc' = "scan"
               /\ state' = state
               /\ subject' = subject
               /\ \E t \in {subdivisions[i][2] : i \in 1..Len(subdivisions)} :
                      /\ TextIs(subdivisions, state, t)
                      /\ TextIs(subdivisions', state, t \o Head(stodo) \o <<"\n">>)]_vars

\* The line is taken for a section marker by the scan: the pattern of
\* line 102 does not match it and the pattern of line 107 does.
TakenForSection(l) == SubjectEnds(l) = {} /\ SectionEnds(l) # {}

\* The keys of the section map d, in its order.
Keys(d) == [i \in 1..Len(d) |-> d[i][1]]

\* C13: one line of the scan.  A line taken for a subject marker sets the
\* subject to the captured value and changes neither the current section
\* nor the section map.  A line taken for a section marker makes the name it
\* captures the current section and adds the line to no text: no text
\* grows, the text of every other section stays, and the only key that can
\* be new is that name, with empty text.  Every other line is appended,
\* followed by a newline, to the text of the current section; the text of
\* every other section, the keys, the current section and the subject stay.
C13_PerLineEffect ==
    [][(spc = "scan" /\ stodo # <<>>) =>
          LET l == Head(stodo)
              n == Len(subdivisions)
          IN  IF SubjectEnds(l) # {} THEN
                  /\ subject' = Some(SubjectGroup(l))
                  /\ state' = state
                  /\ subdivisions' = subdivisions
              ELSE IF TakenForSection(l) THEN
                  /\ state' = SectionGroup(l)
                  /\ subject' = subject
                  /\ Len(subdivisions') \in {n, n + 1}
                  /\ \A i \in 1..n :
                         /\ subdivisions'[i][1] = subdivisions[i][1]
                         /\ Len(subdivisions'[i][2]) <= Len(subdivisions[i][2])
                         /\ (subdivisions[i][1] # SectionGroup(l) =>
                                 subdivisions'[i][2] = subdivisions[i][2])
                  /\ (Len(subdivisions') = n + 1 =>
                          subdivisions'[n + 1] = <<SectionGroup(l), <<>>>>)
              ELSE
                  /\ spc' = "scan"
                  /\ state' = state
                  /\ subject' = subject
                  /\ Len(subdivisions') = n
                  /\ \A i \in 1..n :
                         /\ subdivisions'[i][1] = subdivisions[i][1]
                         /\ subdivisions'[i][2] =
                                IF subdivisions[i][1] = state
                                THEN subdivisions[i][2] \o l \o <<"\n">>
                                ELSE subdivisions[i][2]]_vars

\* The scan is over, with a subject, and with text both in the preamble and
\* in a later section that is current.
C13_Witness ==
    /\ spc # "idle"
    /\ stodo = <<>>
    /\ subject # None
    /\ Len(subdivisions) >= 2
    /\ subdivisions[1][2] # <<>>
    /\ state # subdivisions[1][1]
    /\ \E i \in 2..Len(subdivisions) :
           subdivisions[i][1] = state /\ subdivisions[i][2] # <<>>

\* The names of the lines of ls that are taken for section markers, in
\* the order of the lines.
RECURSIVE Encountered(_)
Encountered(ls) ==
    IF ls = <<>> THEN <<>>
    ELSE (IF TakenForSection(Head(ls)) THEN << SectionGroup(Head(ls)) >> ELSE <<>>)
             \o Encountered(Tail(ls))

\* The lines the scan has iterated over.
Scanned == SubSeq(MailLines, 1, Len(MailLines) - Len(stodo))

\* The place of the first occurrence of x in the sequence s.
FirstAt(s, x) == CHOOSE i \in 1..Len(s) : s[i] = x /\ \A j \in 1..(i - 1) : s[j] # x

\* C14: at every position of the scan the current section is one name,
\* 'preamble' until the first section marker and the name of the last
\* section marker after it, and it is a key of the section map, so that
\* the append never meets a missing key; the keys are 'preamble' and the
\* names of the section markers met, without repetition, 'preamble' first
\* and the others in the order in which the names were first met.
C14_CurrentSectionIsKey ==
    spc # "idle" =>
        LET met == Encountered(Scanned)
            keys == Keys(subdivisions)
            pre == <<"p", "r", "e", "a", "m", "b", "l", "e">>
        IN  /\ state = IF met = <<>> THEN pre ELSE met[Len(met)]
            /\ \E i \in 1..Len(keys) : keys[i] = state
            /\ (spc = "raised" => stodo = <<>>)
            /\ keys[1] = pre
            /\ \A i, j \in 1..Len(keys) : i # j => keys[i] # keys[j]
            /\ {keys[i] : i \in 1..Len(keys)} =
                   {pre} \cup {met[i] : i \in 1..Len(met)}
            /\ \A i, j \in 2..Len(keys) :
                   (i < j /\ keys[i] # pre /\ keys[j] # pre) =>
                       FirstAt(met, keys[i]) < FirstAt(met, keys[j])

\* The scan is over; two names were met after the preamble and the first of
\* them was met again, which makes it current and leaves it second.
C14_Witness ==
    /\ spc # "idle"
    /\ stodo = <<>>
    /\ Len(subdivisions) = 3
    /\ Len(Encountered(Scanned)) >= 3
    /\ state = subdivisions[2][1]

-----------------------------------------------------------------------------
(* Properties of UrlCache *)

\* C10: once a get(url) has completed by a retrieval from the network, every
\* later get(url) calls the network no more and returns the copy stored
\* then, which stays as it is; so no url is retrieved and stored twice.
C10_ReuseAfterRetrieval ==
    /\ [](\A u \in DOMAIN fetched : Len(fetched[u]) <= 1)
    /\ [][\A u \in DOMAIN fetched :
            (fetched[u] # <<>> /\ calls' = calls + 1 /\ last'.url = u) =>
                /\ last'.how = "hit"
                /\ retrievals' = retrievals
                /\ files' = files
                /\ \E f \in files :
                       /\ f[1] = cache_dir \o <<"/">> \o quote(u)
                       /\ f[2] = encode_utf8(fetched[u][1])
                       /\ last'.ret = Some(f[2])]_vars

\* A url retrieved from the network, another one retrieved after it, and
\* then the first one served from its file, as the bytes stored.
C10_Witness ==
    /\ last.how = "hit"
    /\ Len(fetched[last.url]) = 1
    /\ last.ret = Some(encode_utf8(fetched[last.url][1]))
    /\ last.ret # Some(fetched[last.url][1])
    /\ \E u \in DOMAIN fetched : u # last.url /\ fetched[u] # <<>>
    /\ hits = 1
    /\ misses = 2

\* C17: hits + misses is the number of calls of get and misses is the
\* number of calls of requests.get, the ones that raise included; every
\* call of get adds one to exactly one of hits and misses: to hits, with
\* the files and misses as they were, when the file of the url is there,
\* and to misses, with one call of requests.get, when it is not.
C17_Counters ==
    /\ [](hits + misses = calls /\ misses = retrievals)
    /\ [][calls' # calls =>
            /\ calls' = calls + 1
            /\ \/ hits' = hits + 1 /\ misses' = misses
               \/ hits' = hits /\ misses' = misses + 1
            /\ IF \E f \in files : f[1] = cache_dir \o <<"/">> \o quote(last'.url)
               THEN /\ hits' = hits + 1
                    /\ misses' = misses
                    /\ retrievals' = retrievals
                    /\ files' = files
                    /\ dir_exists' = dir_exists
               ELSE /\ misses' = misses + 1
                    /\ retrievals' = retrievals + 1]_vars

\* A url stored on a miss and then served from its file, and a retrieval
\* of another url that raised: one hit and two misses in three calls, with
\* one file more than at the start.
C17_Witness ==
    /\ calls = 3
    /\ hits = 1
    /\ misses = 2
    /\ retrievals = 2
    /\ last.how = "raised"
    /\ \E u \in DOMAIN fetched :
           /\ Len(fetched[u]) = 1
           /\ u # last.url
           /\ \E f \in files : f[1] = cache_dir \o <<"/">> \o quote(u)

-----------------------------------------------------------------------------
(* Properties of scrape_monthly_index *)

IsDigit(c) ==
    \/ c = "0" \/ c = "1" \/ c = "2" \/ c = "3" \/ c = "4"
    \/ c = "5" \/ c = "6" \/ c = "7" \/ c = "8" \/ c = "9"

\* An href that is 'msg', one or more digits, and '.html'.
IsMsgHref(h) ==
    /\ Len(h) >= 9
    /\ Begins(h, <<"m", "s", "g">>)
    /\ Ends(h, <<".", "h", "t", "m", "l">>)
    /\ \A i \in 4..(Len(h) - 5) : IsDigit(h[i])

\* The identifiers the anchors call for: one for each href that matches.
RECURSIVE Identifiers(_, _)
Identifiers(base, anchors) ==
    IF anchors = <<>> THEN <<>>
    ELSE (IF Head(anchors) # None /\ IsMsgHref(Val(Head(anchors)))
          THEN << base \o Val(Head(anchors)) >> ELSE <<>>)
             \o Identifiers(base, Tail(anchors))

\* C9: once the index document is there, scrape_monthly_index does not fail
\* and yields, in document order, exactly the index location joined with the
\* href of each anchor whose href is 'msg', digits, '.html'; every other
\* anchor, one without href included, yields nothing.
C9_ExactlyTheMsgAnchors ==
    /\ (html_doc # None => ipc # "raised")
    /\ ipc = "done" =>
           mail_urls = Identifiers(index_url, find_all_a(Val(html_doc)))

=============================================================================
